---- MODULE Spec2Model ----
(***************************************************************************)
(* Billing engine of MewbileTech: Customer -> PhoneLine -> Contract -> Bill *)
(*                                                                         *)
(* Money is kept in thousandths of a dollar (20.00 is 20000, the prepaid   *)
(* rate 0.025 per minute is 25), so that every amount the contracts        *)
(* compute is an integer.  A date is the pair <<month, year>>: the day of  *)
(* a date is never read by the code.  A dictionary is a function whose     *)
(* DOMAIN is the set of its keys.                                          *)
(***************************************************************************)
EXTENDS Integers, Sequences, FiniteSets, TLC

VARIABLES
    phone_lines,   \* Customer._phone_lines: the numbers owned, in order
    contract,      \* number -> the Contract object of that PhoneLine
    bills,         \* number -> PhoneLine.bills, (month, year) -> Bill
    callhistory,   \* number -> CallHistory (incoming and outgoing calls)
    requested,     \* number -> minutes handed to bill_call since the
                   \*   contract's Bill was last bound (history variable)
    cancel_ret,    \* outcome of the last Customer.cancel_phone_line
    conv           \* duration -> minutes, the conversions bill_call's
                   \*   ceil(duration / 60.0) was asked for on its own

vars == <<phone_lines, contract, bills, callhistory, requested, cancel_ret, conv>>

----------------------------------------------------------------------------
(* Bounds of the exploration *)

\* call events (made or received) of the customer's lines
MaxCalls == 2

\* (month, year) of the events
Cycles == {<<12, 2017>>, <<6, 2019>>, <<1, 2020>>}

\* 1, 100 and 101 minutes
Durations == {50, 6000, 6001}

\* longest duration, in seconds, converted on its own
MaxDuration == 130

\* an incoming call is only registered: one duration
IncomingDurations == {50}

Balances == {100, 30, -5, -10}

\* billing cycles advanced on a prepaid line that only advances
MaxMonths == 6

PrepaidCycles == {<<m, 2018>> : m \in 1..MaxMonths}

\* balances of such a line: also below the low-water mark
PrepaidBalances == Balances \cup {-11, -40}

StartDate == <<12, 2017>>

\* end dates of a term contract: later cycles exist with a smaller and with
\* a larger month number, and earlier ones likewise
EndDates == {<<6, 2019>>, <<12, 2019>>, <<1, 2018>>}

----------------------------------------------------------------------------
(* Constants of contract.py, in thousandths of a dollar *)

MTM_MONTHLY_FEE == 50000

TERM_MONTHLY_FEE == 20000

TERM_DEPOSIT == 300000

TERM_MINS == 100

MTM_MINS_COST == 50

TERM_MINS_COST == 100

PREPAID_MINS_COST == 25

PREPAID_TOPUP == 25

PREPAID_LOW_WATER == -10

Thousandths(dollars) == dollars * 1000

None == <<>>

\* the customer's id
CustomerId == 5555

\* TermContract.saved_month before the first new_month (the integer 0)
NoCycle == <<0>>

----------------------------------------------------------------------------
(* Pure helpers *)

\* the conversion truncating and adding a minute: floor(duration / 60) + 1
Ceil60_floor_plus_one(d) == (d \div 60) + 1

\* ceil(call.duration / 60.0)
Ceil60(d) == IF d % 60 = 0 THEN d \div 60 ELSE (d \div 60) + 1

\* Python's comparison of two (month, year) tuples: lexicographic, month first
TupleGT(a, b) == a[1] > b[1] \/ (a[1] = b[1] /\ a[2] > b[2])

TupleLT(a, b) == a[1] < b[1] \/ (a[1] = b[1] /\ a[2] < b[2])

Range(s) == {s[i] : i \in DOMAIN s}

\* list.remove(x): drops the first element equal to x
Remove(s, x) ==
    LET i == CHOOSE k \in DOMAIN s : s[k] = x /\ \A j \in 1..(k-1) : s[j] # x
    IN  SubSeq(s, 1, i-1) \o SubSeq(s, i+1, Len(s))

RECURSIVE SumLen(_, _)
SumLen(d, keys) ==
    IF keys = {} THEN 0
    ELSE LET k == CHOOSE x \in keys : TRUE
         IN  Len(d[k]) + SumLen(d, keys \ {k})

\* number of call events a line has seen
CallCount(n) ==
    SumLen(callhistory[n].outgoing_calls, DOMAIN callhistory[n].outgoing_calls)
    + SumLen(callhistory[n].incoming_calls, DOMAIN callhistory[n].incoming_calls)

RECURSIVE SumCalls(_)
SumCalls(ns) ==
    IF ns = {} THEN 0
    ELSE LET k == CHOOSE x \in ns : TRUE
         IN  CallCount(k) + SumCalls(ns \ {k})

\* number of call events the customer's lines have seen
TotalCalls == SumCalls(DOMAIN callhistory)

----------------------------------------------------------------------------
(* Bill *)

Bill0 == [type |-> "", min_rate |-> 0, fixed_cost |-> 0,
          billed_min |-> 0, free_min |-> 0]

set_rates(b, t, r) == [b EXCEPT !.type = t, !.min_rate = r]

add_fixed_cost(b, amount) == [b EXCEPT !.fixed_cost = @ + amount]

add_billed_minutes(b, m) == [b EXCEPT !.billed_min = @ + m]

get_cost(b) == b.fixed_cost + b.billed_min * b.min_rate

get_summary(b) ==
    [type |-> b.type, fixed |-> b.fixed_cost, free_mins |-> b.free_min,
     billed_mins |-> b.billed_min, min_rate |-> b.min_rate,
     total |-> get_cost(b)]

----------------------------------------------------------------------------
(* Outcomes of a call that returns a value *)

Returned(x) == [kind |-> "value", amount |-> x]

ReturnedNone == [kind |-> "None", amount |-> 0]

Raised == [kind |-> "raise", amount |-> 0]

----------------------------------------------------------------------------
(* Contract.  A line state L is [contract, bills, callhistory, requested]; *)
(* the contract's bill attribute is the key of the Bill in L.bills.        *)

ActiveBill(L) == L.bills[L.contract.bill]

WithActiveBill(L, b) == [L EXCEPT !.bills[L.contract.bill] = b]

\* TermContract.new_month charging the deposit in every cycle
Term_new_month_deposit_always(L, cyc) ==
    LET bound == [L EXCEPT !.contract.bill = cyc,
                           !.contract.term_minutes = TERM_MINS,
                           !.requested = 0]
        b1 == add_fixed_cost(set_rates(ActiveBill(bound), "TERM", TERM_MINS_COST),
                             TERM_MONTHLY_FEE)
    IN  [WithActiveBill(bound, add_fixed_cost(b1, TERM_DEPOSIT))
            EXCEPT !.contract.saved_month = cyc]

\* TermContract.new_month carrying the remaining minutes over to the new cycle
Term_new_month_carry_over(L, cyc) ==
    LET bound == [L EXCEPT !.contract.bill = cyc,
                           !.contract.term_minutes = @ + TERM_MINS,
                           !.requested = 0]
        b1 == add_fixed_cost(set_rates(ActiveBill(bound), "TERM", TERM_MINS_COST),
                             TERM_MONTHLY_FEE)
        b2 == IF cyc = L.contract.start
              THEN add_fixed_cost(b1, TERM_DEPOSIT)
              ELSE b1
    IN  [WithActiveBill(bound, b2) EXCEPT !.contract.saved_month = cyc]

\* TermContract.new_month
Term_new_month(L, cyc) ==
    LET bound == [L EXCEPT !.contract.bill = cyc,
                           !.contract.term_minutes = TERM_MINS,
                           !.requested = 0]
        b1 == add_fixed_cost(set_rates(ActiveBill(bound), "TERM", TERM_MINS_COST),
                             TERM_MONTHLY_FEE)
        b2 == IF cyc = L.contract.start
              THEN add_fixed_cost(b1, TERM_DEPOSIT)
              ELSE b1
    IN  [WithActiveBill(bound, b2) EXCEPT !.contract.saved_month = cyc]

\* MTMContract.new_month
MTM_new_month(L, cyc) ==
    LET bound == [L EXCEPT !.contract.bill = cyc, !.requested = 0]
    IN  WithActiveBill(bound,
            add_fixed_cost(set_rates(ActiveBill(bound), "MTM", MTM_MINS_COST),
                           MTM_MONTHLY_FEE))

\* PrepaidContract.new_month topping up at the low-water mark too (>= -10)
Prepaid_new_month_at_mark(L, cyc) ==
    LET bound == [L EXCEPT !.contract.bill = cyc, !.requested = 0]
        b1 == add_fixed_cost(set_rates(ActiveBill(bound), "PREPAID", PREPAID_MINS_COST),
                             Thousandths(L.contract.balance * (-1)))
        charged == WithActiveBill(bound, b1)
    IN  IF L.contract.balance >= PREPAID_LOW_WATER
        THEN [charged EXCEPT !.contract.balance = @ - PREPAID_TOPUP]
        ELSE charged

\* PrepaidContract.new_month charging the balance as it is after the top-up
Prepaid_new_month_charge_after(L, cyc) ==
    LET bound == [L EXCEPT !.contract.bill = cyc, !.requested = 0]
        topped == IF L.contract.balance > PREPAID_LOW_WATER
                  THEN [bound EXCEPT !.contract.balance = @ - PREPAID_TOPUP]
                  ELSE bound
    IN  WithActiveBill(topped,
            add_fixed_cost(set_rates(ActiveBill(topped), "PREPAID", PREPAID_MINS_COST),
                           Thousandths(topped.contract.balance * (-1))))

\* PrepaidContract.new_month topping up whatever the balance
Prepaid_new_month_always(L, cyc) ==
    LET bound == [L EXCEPT !.contract.bill = cyc, !.requested = 0]
        b1 == add_fixed_cost(set_rates(ActiveBill(bound), "PREPAID", PREPAID_MINS_COST),
                             Thousandths(L.contract.balance * (-1)))
        charged == WithActiveBill(bound, b1)
    IN  [charged EXCEPT !.contract.balance = @ - PREPAID_TOPUP]

\* PrepaidContract.new_month
Prepaid_new_month(L, cyc) ==
    LET bound == [L EXCEPT !.contract.bill = cyc, !.requested = 0]
        b1 == add_fixed_cost(set_rates(ActiveBill(bound), "PREPAID", PREPAID_MINS_COST),
                             Thousandths(L.contract.balance * (-1)))
        charged == WithActiveBill(bound, b1)
    IN  IF L.contract.balance > PREPAID_LOW_WATER
        THEN [charged EXCEPT !.contract.balance = @ - PREPAID_TOPUP]
        ELSE charged

Contract_new_month(L, cyc) ==
    CASE L.contract.kind = "TERM" -> Term_new_month(L, cyc)
      [] L.contract.kind = "MTM" -> MTM_new_month(L, cyc)
      [] L.contract.kind = "PREPAID" -> Prepaid_new_month(L, cyc)

\* Contract.bill_call drawing the charge of the call from the balance too
Contract_bill_call_draw_down(L, d) ==
    [WithActiveBill(L, add_billed_minutes(ActiveBill(L), Ceil60(d)))
        EXCEPT !.contract.balance = @ - Ceil60(d)]

\* Contract.bill_call billing the whole minutes only: floor(duration / 60)
Contract_bill_call_floor(L, d) ==
    WithActiveBill(L, add_billed_minutes(ActiveBill(L), d \div 60))

\* Contract.bill_call, inherited by MTMContract, and PrepaidContract.bill_call
Contract_bill_call(L, d) ==
    WithActiveBill(L, add_billed_minutes(ActiveBill(L), Ceil60(d)))

\* TermContract.bill_call
Term_bill_call(L, d) ==
    LET m == Ceil60(d)
        tm == L.contract.term_minutes
    IN  IF tm > 0
        THEN LET freed == [ActiveBill(L) EXCEPT !.free_min = @ + m]
                 left == tm - m
                 b == IF left < 0 THEN add_billed_minutes(freed, left * (-1))
                      ELSE freed
             IN  [WithActiveBill(L, b) EXCEPT !.contract.term_minutes = left]
        ELSE IF tm = 0
        THEN WithActiveBill(L, add_billed_minutes(ActiveBill(L), m))
        ELSE L

bill_call(L, d) ==
    LET billed == IF L.contract.kind = "TERM" THEN Term_bill_call(L, d)
                  ELSE Contract_bill_call(L, d)
    IN  [billed EXCEPT !.requested = @ + Ceil60(d)]

\* Contract.cancel_contract returning the fixed cost instead of the total
Contract_cancel_contract_fixed_only(L) ==
    LET cleared == [L EXCEPT !.contract.start = None]
    IN  IF L.contract.bill = None
        THEN [line |-> cleared, ret |-> Raised]
        ELSE [line |-> cleared, ret |-> Returned(ActiveBill(L).fixed_cost)]

\* Contract.cancel_contract, inherited by MTMContract.
\* Each cancel_contract yields [line |-> the line after it, ret |-> outcome].
Contract_cancel_contract(L) ==
    LET cleared == [L EXCEPT !.contract.start = None]
    IN  IF L.contract.bill = None
        THEN [line |-> cleared, ret |-> Raised]
        ELSE [line |-> cleared, ret |-> Returned(get_cost(ActiveBill(L)))]

\* TermContract.cancel_contract refunding from the end date's cycle on (>=)
Term_cancel_contract_end_included(L) ==
    LET c == L.contract
        closed == [L EXCEPT !.contract.start = None, !.contract.end = None]
    IN  IF c.saved_month = NoCycle
        THEN [line |-> L, ret |-> Raised]
        ELSE IF TupleGT(c.saved_month, c.end) \/ c.saved_month = c.end
        THEN [line |-> WithActiveBill(closed,
                          add_fixed_cost(ActiveBill(closed), Thousandths(-300))),
              ret |-> ReturnedNone]
        ELSE [line |-> closed, ret |-> ReturnedNone]

\* TermContract.cancel_contract
Term_cancel_contract(L) ==
    LET c == L.contract
        closed == [L EXCEPT !.contract.start = None, !.contract.end = None]
    IN  IF c.saved_month = NoCycle
        THEN [line |-> L, ret |-> Raised]
        ELSE IF TupleGT(c.saved_month, c.end)
        THEN [line |-> WithActiveBill(closed,
                          add_fixed_cost(ActiveBill(closed), Thousandths(-300))),
              ret |-> ReturnedNone]
        ELSE IF TupleLT(c.saved_month, c.end)
        THEN [line |-> closed, ret |-> ReturnedNone]
        ELSE [line |-> L, ret |-> ReturnedNone]

\* PrepaidContract.cancel_contract paying the credit out (fixed cost lowered)
Prepaid_cancel_contract_payout(L) ==
    LET cleared == [L EXCEPT !.contract.start = None]
    IN  IF L.contract.balance > 0
        THEN IF L.contract.bill = None
             THEN [line |-> cleared, ret |-> Raised]
             ELSE LET b == add_fixed_cost(ActiveBill(cleared),
                                          Thousandths(L.contract.balance * (-1)))
                  IN  [line |-> WithActiveBill(cleared, b),
                       ret |-> Returned(get_cost(b))]
        ELSE [line |-> cleared, ret |-> Returned(0)]

\* PrepaidContract.cancel_contract
Prepaid_cancel_contract(L) ==
    LET cleared == [L EXCEPT !.contract.start = None]
    IN  IF L.contract.balance > 0
        THEN IF L.contract.bill = None
             THEN [line |-> cleared, ret |-> Raised]
             ELSE LET b == add_fixed_cost(ActiveBill(cleared),
                                          Thousandths(L.contract.balance))
                  IN  [line |-> WithActiveBill(cleared, b),
                       ret |-> Returned(get_cost(b))]
        ELSE [line |-> cleared, ret |-> Returned(0)]

cancel_contract(L) ==
    CASE L.contract.kind = "TERM" -> Term_cancel_contract(L)
      [] L.contract.kind = "MTM" -> Contract_cancel_contract(L)
      [] L.contract.kind = "PREPAID" -> Prepaid_cancel_contract(L)

----------------------------------------------------------------------------
(* CallHistory *)

Register(d, cyc, dur) ==
    IF cyc \notin DOMAIN d
    THEN (cyc :> <<dur>>) @@ d
    ELSE [d EXCEPT ![cyc] = Append(@, dur)]

register_outgoing_call(L, cyc, dur) ==
    [L EXCEPT !.callhistory.outgoing_calls = Register(@, cyc, dur)]

register_incoming_call(L, cyc, dur) ==
    [L EXCEPT !.callhistory.incoming_calls = Register(@, cyc, dur)]

----------------------------------------------------------------------------
(* PhoneLine *)

\* PhoneLine.new_month without the membership test: the Bill of a cycle that
\* has one is handed to the contract again
PhoneLine_new_month_unguarded(L, cyc) ==
    IF cyc \notin DOMAIN L.bills
    THEN Contract_new_month([L EXCEPT !.bills = (cyc :> Bill0) @@ @], cyc)
    ELSE Contract_new_month(L, cyc)

PhoneLine_new_month(L, cyc) ==
    IF cyc \notin DOMAIN L.bills
    THEN Contract_new_month([L EXCEPT !.bills = (cyc :> Bill0) @@ @], cyc)
    ELSE L

\* PhoneLine.make_call billing the Bill of the call's own (month, year)
PhoneLine_make_call_own_cycle(L, cyc, dur) ==
    LET advanced == IF cyc \notin DOMAIN L.bills
                    THEN PhoneLine_new_month(L, cyc)
                    ELSE L
        rebound == [register_outgoing_call(advanced, cyc, dur)
                       EXCEPT !.contract.bill = cyc]
    IN  bill_call(rebound, dur)

\* PhoneLine.make_call writing the minutes on the Bill of the call's cycle
\* while the contract stays bound to the Bill it had
PhoneLine_make_call_to_call_bill(L, cyc, dur) ==
    LET advanced == IF cyc \notin DOMAIN L.bills
                    THEN PhoneLine_new_month(L, cyc)
                    ELSE L
        rebound == [register_outgoing_call(advanced, cyc, dur)
                       EXCEPT !.contract.bill = cyc]
    IN  [bill_call(rebound, dur) EXCEPT !.contract.bill = advanced.contract.bill]

PhoneLine_make_call(L, cyc, dur) ==
    LET advanced == IF cyc \notin DOMAIN L.bills
                    THEN PhoneLine_new_month(L, cyc)
                    ELSE L
    IN  bill_call(register_outgoing_call(advanced, cyc, dur), dur)

\* PhoneLine.receive_call billing the incoming call like an outgoing one
PhoneLine_receive_call_billed(L, cyc, dur) ==
    LET advanced == IF cyc \notin DOMAIN L.bills
                    THEN PhoneLine_new_month(L, cyc)
                    ELSE L
    IN  bill_call(register_incoming_call(advanced, cyc, dur), dur)

PhoneLine_receive_call(L, cyc, dur) ==
    LET advanced == IF cyc \notin DOMAIN L.bills
                    THEN PhoneLine_new_month(L, cyc)
                    ELSE L
    IN  register_incoming_call(advanced, cyc, dur)

PhoneLine_cancel_line(L) == cancel_contract(L)

----------------------------------------------------------------------------
(* Customer: the state of line n as one record, and its write-back *)

Line(n) == [contract |-> contract[n], bills |-> bills[n],
            callhistory |-> callhistory[n], requested |-> requested[n]]

Numbers == DOMAIN contract

SetLines(f) ==
    /\ contract' = [n \in Numbers |-> f[n].contract]
    /\ bills' = [n \in Numbers |-> f[n].bills]
    /\ callhistory' = [n \in Numbers |-> f[n].callhistory]
    /\ requested' = [n \in Numbers |-> f[n].requested]

\* Customer.new_month
new_month(cyc) ==
    /\ SetLines([n \in Numbers |->
                    IF n \in Range(phone_lines)
                    THEN PhoneLine_new_month(Line(n), cyc)
                    ELSE Line(n)])
    /\ UNCHANGED <<phone_lines, cancel_ret, conv>>

\* Customer.make_call
make_call(n, cyc, dur) ==
    /\ n \in Range(phone_lines)
    /\ TotalCalls < MaxCalls
    /\ SetLines([k \in Numbers |->
                    IF k = n THEN PhoneLine_make_call(Line(k), cyc, dur)
                    ELSE Line(k)])
    /\ UNCHANGED <<phone_lines, cancel_ret, conv>>

\* Customer.receive_call
receive_call(n, cyc, dur) ==
    /\ n \in Range(phone_lines)
    /\ TotalCalls < MaxCalls
    /\ SetLines([k \in Numbers |->
                    IF k = n THEN PhoneLine_receive_call(Line(k), cyc, dur)
                    ELSE Line(k)])
    /\ UNCHANGED <<phone_lines, cancel_ret, conv>>

\* Customer.cancel_phone_line
cancel_phone_line(n) ==
    IF n \in Range(phone_lines)
    THEN LET r == PhoneLine_cancel_line(Line(n))
         IN  /\ phone_lines' = Remove(phone_lines, n)
             /\ SetLines([k \in Numbers |-> IF k = n THEN r.line ELSE Line(k)])
             /\ cancel_ret' = [number |-> n, kind |-> r.ret.kind, amount |-> r.ret.amount]
             /\ UNCHANGED conv
    ELSE /\ cancel_ret' = [number |-> n, kind |-> "None", amount |-> 0]
         /\ UNCHANGED <<phone_lines, contract, bills, callhistory, requested, conv>>

\* PhoneLine.get_bill for a cycle that has a Bill (None otherwise)
PhoneLine_get_bill(n, cyc) ==
    get_summary(bills[n][cyc]) @@ [number |-> n]

\* Customer.generate_bill adding up the fixed costs only
RECURSIVE generate_bill_fixed_from(_, _, _, _)
generate_bill_fixed_from(i, cyc, total, sums) ==
    IF i > Len(phone_lines)
    THEN [id |-> CustomerId, total |-> total, bills |-> sums]
    ELSE IF cyc \notin DOMAIN bills[phone_lines[i]]
    THEN generate_bill_fixed_from(i + 1, cyc, total, sums)
    ELSE LET line_bill == PhoneLine_get_bill(phone_lines[i], cyc)
         IN  generate_bill_fixed_from(i + 1, cyc, total + line_bill.fixed,
                                      Append(sums, line_bill))

generate_bill_fixed(cyc) == generate_bill_fixed_from(1, cyc, 0, <<>>)

\* Customer.generate_bill: the loop over the lines from the i-th on
RECURSIVE generate_bill_from(_, _, _, _)
generate_bill_from(i, cyc, total, sums) ==
    IF i > Len(phone_lines)
    THEN [id |-> CustomerId, total |-> total, bills |-> sums]
    ELSE IF cyc \notin DOMAIN bills[phone_lines[i]]
    THEN generate_bill_from(i + 1, cyc, total, sums)
    ELSE LET line_bill == PhoneLine_get_bill(phone_lines[i], cyc)
         IN  generate_bill_from(i + 1, cyc, total + line_bill.total,
                                Append(sums, line_bill))

\* Customer.generate_bill
generate_bill(cyc) == generate_bill_from(1, cyc, 0, <<>>)

----------------------------------------------------------------------------
(* Construction *)

TermContract(start, end) ==
    [kind |-> "TERM", start |-> start, end |-> end, bill |-> None,
     term_minutes |-> 0, saved_month |-> NoCycle, balance |-> 0]

MTMContract(start) ==
    [kind |-> "MTM", start |-> start, end |-> None, bill |-> None,
     term_minutes |-> 0, saved_month |-> NoCycle, balance |-> 0]

PrepaidContract(start, balance) ==
    [kind |-> "PREPAID", start |-> start, end |-> None, bill |-> None,
     term_minutes |-> 0, saved_month |-> NoCycle, balance |-> balance]

InitialContracts ==
    {TermContract(StartDate, e) : e \in EndDates}
    \cup {MTMContract(StartDate)}
    \cup {PrepaidContract(StartDate, b) : b \in Balances}

CallHistory0 == [incoming_calls |-> <<>>, outgoing_calls |-> <<>>]

\* a customer with one phone line, of any contract variant
Init ==
    /\ phone_lines = <<1>>
    /\ contract \in [{1} -> InitialContracts]
    /\ bills = [n \in {1} |-> <<>>]
    /\ callhistory = [n \in {1} |-> CallHistory0]
    /\ requested = [n \in {1} |-> 0]
    /\ cancel_ret = [number |-> 0, kind |-> "not called", amount |-> 0]
    /\ conv = <<>>

Next ==
    \/ \E cyc \in Cycles : new_month(cyc)
    \/ \E n \in Numbers, cyc \in Cycles, dur \in Durations : make_call(n, cyc, dur)
    \/ \E n \in Numbers, cyc \in Cycles, dur \in IncomingDurations : receive_call(n, cyc, dur)
    \/ \E n \in Numbers : cancel_phone_line(n)

Spec == Init /\ [][Next]_vars

----------------------------------------------------------------------------
(* The customer of the tests: a term line, a month-to-month line and a      *)
(* prepaid line of balance 100, in this order.                              *)

TestEndDate == <<6, 2019>>

\* the events of this customer: the start cycle and one other, calls of 50 s
TestCycles == {<<12, 2017>>, <<6, 2019>>}

TestDurations == {50}

TestBalance == 100

InitCustomer ==
    /\ phone_lines = <<1, 2, 3>>
    /\ contract = <<TermContract(StartDate, TestEndDate), MTMContract(StartDate),
                    PrepaidContract(StartDate, TestBalance)>>
    /\ bills = [n \in {1, 2, 3} |-> <<>>]
    /\ callhistory = [n \in {1, 2, 3} |-> CallHistory0]
    /\ requested = [n \in {1, 2, 3} |-> 0]
    /\ cancel_ret = [number |-> 0, kind |-> "not called", amount |-> 0]
    /\ conv = <<>>

NextCustomer ==
    \/ \E cyc \in TestCycles : new_month(cyc)
    \/ \E n \in Numbers, cyc \in TestCycles, dur \in TestDurations : make_call(n, cyc, dur)
    \/ \E n \in Numbers, cyc \in TestCycles, dur \in TestDurations : receive_call(n, cyc, dur)
    \/ \E n \in Numbers : cancel_phone_line(n)

SpecCustomer == InitCustomer /\ [][NextCustomer]_vars

----------------------------------------------------------------------------
(* The minute conversion on its own: no customer, only durations handed to  *)
(* the conversion of bill_call, two at a time.                              *)

InitConversion ==
    /\ phone_lines = <<>>
    /\ contract = <<>>
    /\ bills = <<>>
    /\ callhistory = <<>>
    /\ requested = <<>>
    /\ cancel_ret = [number |-> 0, kind |-> "not called", amount |-> 0]
    /\ conv = <<>>

Convert(d) ==
    /\ d \notin DOMAIN conv
    /\ Cardinality(DOMAIN conv) < 2
    /\ conv' = (d :> Ceil60(d)) @@ conv
    /\ UNCHANGED <<phone_lines, contract, bills, callhistory, requested, cancel_ret>>

NextConversion == \E d \in 0..MaxDuration : Convert(d)

SpecConversion == InitConversion /\ [][NextConversion]_vars

----------------------------------------------------------------------------
(* A prepaid line on which cycles are advanced, one after the other, and    *)
(* nothing else happens.                                                    *)

InitPrepaid ==
    /\ phone_lines = <<1>>
    /\ contract \in [{1} -> {PrepaidContract(StartDate, b) : b \in PrepaidBalances}]
    /\ bills = [n \in {1} |-> <<>>]
    /\ callhistory = [n \in {1} |-> CallHistory0]
    /\ requested = [n \in {1} |-> 0]
    /\ cancel_ret = [number |-> 0, kind |-> "not called", amount |-> 0]
    /\ conv = <<>>

NextPrepaid == \E cyc \in PrepaidCycles : new_month(cyc)

\* the driver goes on advancing while a cycle is left to advance
SpecPrepaid == InitPrepaid /\ [][NextPrepaid]_vars /\ WF_vars(NextPrepaid)

----------------------------------------------------------------------------
(* Vocabulary of the properties *)

Owned(n) == n \in Range(phone_lines)

IsTerm(n) == contract[n].kind = "TERM"

IsPrepaid(n) == contract[n].kind = "PREPAID"

IsMTM(n) == contract[n].kind = "MTM"

\* the step registers an incoming call of line n
ReceivesCall(n) == callhistory'[n].incoming_calls # callhistory[n].incoming_calls

HasBill(n) == contract[n].bill # None

Active(n) == bills[n][contract[n].bill]

\* the Bill that is active on line n after the step
ActiveNext(n) == bills'[n][contract'[n].bill]

\* the step binds a new Bill to the contract of line n (Contract.new_month ran)
Advances(n) == contract'[n].bill # contract[n].bill

\* the step hands a call of line n to bill_call
RecordsCall(n) == callhistory'[n].outgoing_calls # callhistory[n].outgoing_calls

\* the step is Customer.cancel_phone_line of the owned line n
Cancels(n) == Owned(n) /\ n \notin Range(phone_lines')

\* minutes of the call the step records, and the state the call finds
CallMinutes(n) ==
    IF Advances(n) THEN requested'[n] ELSE requested'[n] - requested[n]

RemainingBefore(n) ==
    IF Advances(n) THEN TERM_MINS ELSE contract[n].term_minutes

FreeBefore(n) == IF Advances(n) THEN 0 ELSE Active(n).free_min

BilledBefore(n) == IF Advances(n) THEN 0 ELSE Active(n).billed_min

\* (month, year) of the call the step records on line n
CallCycle(n) ==
    CHOOSE c \in DOMAIN callhistory'[n].outgoing_calls :
        \/ c \notin DOMAIN callhistory[n].outgoing_calls
        \/ callhistory'[n].outgoing_calls[c] # callhistory[n].outgoing_calls[c]

\* minutes on the Bill of cycle c of line n before the step (none if no Bill)
BilledAt(n, c) == IF c \in DOMAIN bills[n] THEN bills[n][c].billed_min ELSE 0

FreeAt(n, c) == IF c \in DOMAIN bills[n] THEN bills[n][c].free_min ELSE 0

RECURSIVE SumTotals(_)
SumTotals(sums) ==
    IF sums = <<>> THEN 0
    ELSE sums[1].total + SumTotals(Tail(sums))

Min(a, b) == IF a < b THEN a ELSE b

Max(a, b) == IF a > b THEN a ELSE b

\* chronological order of two (month, year) cycles
ChronAfter(a, b) == a[2] > b[2] \/ (a[2] = b[2] /\ a[1] > b[1])

ChronBefore(a, b) == ChronAfter(b, a)

----------------------------------------------------------------------------
(* Properties *)

\* C1: on a TermContract, free minutes plus billed minutes of the active
\* Bill equal the sum of ceil(duration/60) over the calls recorded since that
\* Bill was bound.
C1_CycleMinutesAccounted ==
    \A n \in Numbers :
        (IsTerm(n) /\ HasBill(n)) =>
            Active(n).free_min + Active(n).billed_min = requested[n]

\* C2: one record_call of m minutes on a TermContract with r > 0 included
\* minutes remaining adds min(m, r) free minutes and max(0, m - r) billed
\* minutes to the active Bill.
C2_CallSplitsFreeAndBilled ==
    [][\A n \in Numbers :
          (IsTerm(n) /\ RecordsCall(n) /\ RemainingBefore(n) > 0) =>
              /\ ActiveNext(n).free_min =
                     FreeBefore(n) + Min(CallMinutes(n), RemainingBefore(n))
              /\ ActiveNext(n).billed_min =
                     BilledBefore(n) + Max(0, CallMinutes(n) - RemainingBefore(n))]_vars

\* C3: once the calls of a TermContract cycle total 100 minutes or more,
\* every further record_call of that cycle adds all its minutes to the
\* billed minutes.
C3_ExhaustedBillsWholeCall ==
    [][\A n \in Numbers :
          (IsTerm(n) /\ RecordsCall(n) /\ ~Advances(n)
           /\ requested[n] >= TERM_MINS) =>
              ActiveNext(n).billed_min = Active(n).billed_min + CallMinutes(n)]_vars

\* C4: term_minutes of a TermContract is never negative.
C4_TermMinutesNonNegative ==
    \A n \in Numbers : IsTerm(n) => contract[n].term_minutes >= 0

\* C5: cancelling a TermContract whose last advanced cycle is chronologically
\* after the end date's cycle subtracts 300.00 from the active Bill's fixed
\* cost.
C5_CloseAfterEndRefunds ==
    [][\A n \in Numbers :
          (IsTerm(n) /\ Cancels(n) /\ HasBill(n)
           /\ ChronAfter(contract[n].saved_month, contract[n].end)) =>
              ActiveNext(n).fixed_cost = Active(n).fixed_cost - TERM_DEPOSIT]_vars

\* C6: cancelling a TermContract whose last advanced cycle is chronologically
\* before the end date's cycle leaves the active Bill's fixed cost and total
\* as they were.
C6_CloseBeforeEndKeepsDeposit ==
    [][\A n \in Numbers :
          (IsTerm(n) /\ Cancels(n) /\ HasBill(n)
           /\ ChronBefore(contract[n].saved_month, contract[n].end)) =>
              /\ ActiveNext(n).fixed_cost = Active(n).fixed_cost
              /\ get_cost(ActiveNext(n)) = get_cost(Active(n))]_vars

\* C7: cancelling a TermContract, after or before its end date, returns the
\* total of the final Bill as the cancellation left it.
C7_TermCloseReturnsTotal ==
    [][\A n \in Numbers :
          (IsTerm(n) /\ Cancels(n) /\ HasBill(n)
           /\ (\/ ChronAfter(contract[n].saved_month, contract[n].end)
               \/ ChronBefore(contract[n].saved_month, contract[n].end))) =>
              /\ cancel_ret'.kind = "value"
              /\ cancel_ret'.amount = get_cost(ActiveNext(n))]_vars

\* C8: after cancel_contract on a contract of any variant that has an active
\* Bill, the contract's start date is None.
C8_CloseClearsStart ==
    [][\A n \in Numbers :
          (Cancels(n) /\ HasBill(n)) => contract'[n].start = None]_vars

\* C9: every Bill a TermContract was advanced to carries the 20.00 monthly
\* fee, and the 300.00 deposit exactly when its cycle is the cycle of the
\* start date; with no billed minutes its total is 320 in the start cycle
\* and 20 in every other cycle.
C9_TermFixedCosts ==
    \A n \in Numbers :
        (IsTerm(n) /\ Owned(n)) =>
            \A cyc \in DOMAIN bills[n] :
                LET b == bills[n][cyc]
                    due == IF cyc = contract[n].start
                           THEN TERM_MONTHLY_FEE + TERM_DEPOSIT
                           ELSE TERM_MONTHLY_FEE
                IN  /\ b.fixed_cost = due
                    /\ (b.billed_min = 0 =>
                           get_cost(b) = (IF cyc = contract[n].start
                                          THEN Thousandths(320)
                                          ELSE Thousandths(20)))

\* a term line advanced to its start cycle and to two other cycles
C9_Witness ==
    \E n \in Numbers :
        /\ IsTerm(n) /\ Owned(n)
        /\ DOMAIN bills[n] = Cycles
        /\ contract[n].start \in Cycles
        /\ \A cyc \in Cycles : bills[n][cyc].billed_min = 0

\* C10: a step that advances a PrepaidContract lowers balance by exactly 25
\* when balance > -10 held before it and leaves it unchanged otherwise; every
\* other step leaves balance unchanged.
C10_PrepaidBalanceSteps ==
    [][\A n \in Numbers :
          IsPrepaid(n) =>
              contract'[n].balance =
                  (IF Advances(n) /\ contract[n].balance > -10
                   THEN contract[n].balance - 25
                   ELSE contract[n].balance)]_vars

\* a prepaid line that started at 30, was lowered twice (5, then -20) and
\* then advanced once more with its balance left at -20
C10_Witness ==
    \E n \in Numbers :
        /\ IsPrepaid(n)
        /\ Cardinality(DOMAIN bills[n]) = 3
        /\ contract[n].balance = -20
        /\ \E cyc \in DOMAIN bills[n] :
               bills[n][cyc].fixed_cost = Thousandths(20)

\* C11: a step that advances a PrepaidContract gives the new Bill the fixed
\* cost -balance, balance as it was before the step, and until the line is
\* cancelled the total of the active Bill is that fixed cost plus 0.025 for
\* every minute recorded since.
C11_PrepaidFixedCostAndTotal ==
    [][\A n \in Numbers :
          (IsPrepaid(n) /\ n \in Range(phone_lines') /\ contract'[n].bill # None) =>
              IF Advances(n)
              THEN /\ ActiveNext(n).fixed_cost = Thousandths(0 - contract[n].balance)
                   /\ get_cost(ActiveNext(n)) =
                          Thousandths(0 - contract[n].balance)
                          + PREPAID_MINS_COST * requested'[n]
              ELSE /\ ActiveNext(n).fixed_cost = Active(n).fixed_cost
                   /\ get_cost(ActiveNext(n)) - get_cost(Active(n)) =
                          PREPAID_MINS_COST * (requested'[n] - requested[n])]_vars

\* the prepaid line of balance 100 after its first advance and a call of
\* 50 s: fixed cost -100, balance 75, total -99.975
C11_Witness ==
    \E n \in Numbers :
        /\ IsPrepaid(n) /\ HasBill(n)
        /\ contract[n].balance = 75
        /\ Active(n).fixed_cost = Thousandths(-100)
        /\ Active(n).billed_min = 1
        /\ get_cost(Active(n)) = -99975

\* C12: cancelling a PrepaidContract that has an active Bill adds balance to
\* the Bill's fixed cost and returns the resulting total when balance > 0;
\* when balance <= 0 it leaves the Bill unchanged and returns 0.0.
C12_PrepaidClose ==
    [][\A n \in Numbers :
          (IsPrepaid(n) /\ Cancels(n) /\ HasBill(n)) =>
              IF contract[n].balance > 0
              THEN /\ ActiveNext(n).fixed_cost =
                          Active(n).fixed_cost + Thousandths(contract[n].balance)
                   /\ ActiveNext(n).billed_min = Active(n).billed_min
                   /\ cancel_ret'.kind = "value"
                   /\ cancel_ret'.amount = get_cost(ActiveNext(n))
              ELSE /\ bills'[n] = bills[n]
                   /\ cancel_ret'.kind = "value"
                   /\ cancel_ret'.amount = 0]_vars

\* a cancelled prepaid line whose credit of 75 was added to a Bill with
\* billed minutes, the total returned
C12_Witness ==
    \E n \in Numbers :
        /\ IsPrepaid(n) /\ ~Owned(n) /\ HasBill(n)
        /\ contract[n].balance = 75
        /\ Active(n).fixed_cost = Thousandths(-100 + 75)
        /\ Active(n).billed_min > 0
        /\ cancel_ret = [number |-> n, kind |-> "value",
                         amount |-> get_cost(Active(n))]

\* C13: the active Bill of a MonthToMonthContract has fixed cost 50.00, rate
\* 0.05, no free minutes, and as billed minutes the minutes of the calls
\* recorded since it was bound, so its total is 50 + 0.05 * those minutes.
C13_MTMBill ==
    \A n \in Numbers :
        (IsMTM(n) /\ HasBill(n)) =>
            /\ Active(n).fixed_cost = Thousandths(50)
            /\ Active(n).min_rate = 50
            /\ Active(n).free_min = 0
            /\ Active(n).billed_min = requested[n]
            /\ get_cost(Active(n)) = Thousandths(50) + 50 * requested[n]

\* a month-to-month Bill with a call of 50 s and one of 6001 s: 102 minutes
C13_Witness ==
    \E n \in Numbers :
        /\ IsMTM(n) /\ HasBill(n)
        /\ requested[n] = 102
        /\ get_cost(Active(n)) = 55100

\* C14: cancelling a MonthToMonthContract that has an active Bill returns
\* that Bill's total and changes no Bill of the line.
C14_MTMClose ==
    [][\A n \in Numbers :
          (IsMTM(n) /\ Cancels(n) /\ HasBill(n)) =>
              /\ cancel_ret'.kind = "value"
              /\ cancel_ret'.amount = get_cost(Active(n))
              /\ bills'[n] = bills[n]]_vars

\* a month-to-month line cancelled in a cycle with billed minutes
C14_Witness ==
    \E n \in Numbers :
        /\ IsMTM(n) /\ ~Owned(n) /\ HasBill(n)
        /\ Active(n).billed_min > 0
        /\ cancel_ret = [number |-> n, kind |-> "value",
                         amount |-> get_cost(Active(n))]

\* C15: for every owned line and every cycle, a second new_month of the
\* same (month, year) leaves the cycle's Bill with the fixed cost the first
\* one gave it, and leaves term_minutes and balance as the first left them.
C15_NewMonthIdempotent ==
    \A n \in Numbers :
        Owned(n) =>
            \A cyc \in Cycles :
                LET once == PhoneLine_new_month(Line(n), cyc)
                    twice == PhoneLine_new_month(once, cyc)
                IN  /\ twice.bills[cyc].fixed_cost = once.bills[cyc].fixed_cost
                    /\ twice.contract.term_minutes = once.contract.term_minutes
                    /\ twice.contract.balance = once.contract.balance

\* a line in a cycle with part of its state used: a term line with included
\* minutes consumed, or a prepaid line still above the low-water mark
C15_Witness ==
    \E n \in Numbers :
        /\ Owned(n) /\ HasBill(n)
        /\ \/ IsTerm(n) /\ contract[n].term_minutes = 99
           \/ IsPrepaid(n) /\ contract[n].balance = 75

\* C16: a step that registers an incoming call changes the billed minutes
\* and the free minutes of no Bill of the receiving line; a Bill it creates
\* has none of either.
C16_IncomingNotBilled ==
    [][\A n \in Numbers :
          ReceivesCall(n) =>
              \A cyc \in DOMAIN bills'[n] :
                  IF cyc \in DOMAIN bills[n]
                  THEN /\ bills'[n][cyc].billed_min = bills[n][cyc].billed_min
                       /\ bills'[n][cyc].free_min = bills[n][cyc].free_min
                  ELSE /\ bills'[n][cyc].billed_min = 0
                       /\ bills'[n][cyc].free_min = 0]_vars

\* a line that received a call in a cycle whose Bill has minutes on it
C16_Witness ==
    \E n \in Numbers :
        \E cyc \in DOMAIN bills[n] :
            /\ cyc \in DOMAIN callhistory[n].incoming_calls
            /\ cyc \in DOMAIN callhistory[n].outgoing_calls
            /\ bills[n][cyc].billed_min + bills[n][cyc].free_min > 0

\* C17: cancel_phone_line of an owned line that has an active Bill removes
\* the line and returns an amount, never None.
C17_CancelReturnsAmount ==
    [][\A n \in Numbers :
          (Cancels(n) /\ HasBill(n)) =>
              /\ n \notin Range(phone_lines')
              /\ cancel_ret'.kind = "value"]_vars

\* C18: generate_bill of a cycle returns the customer id, one summary for
\* each owned line that has a Bill for the cycle, in the order of the lines,
\* each with the line's number and that Bill's total, and as total the sum
\* of the summaries' totals; right after the first advance of the term, the
\* month-to-month and the prepaid(100) line that total is 320 + 50 - 100.
C18_GenerateBill ==
    \A cyc \in Cycles :
        LET r == generate_bill(cyc)
            HasCycle(l) == cyc \in DOMAIN bills[l]
            with == SelectSeq(phone_lines, HasCycle)
        IN  /\ r.id = CustomerId
            /\ Len(r.bills) = Len(with)
            /\ \A i \in 1..Len(with) :
                   /\ r.bills[i].number = with[i]
                   /\ r.bills[i].total = get_cost(bills[with[i]][cyc])
                   /\ r.bills[i].billed_mins = bills[with[i]][cyc].billed_min
            /\ r.total = SumTotals(r.bills)
            /\ (/\ phone_lines = <<1, 2, 3>>
                /\ cyc = StartDate
                /\ \A n \in Numbers : DOMAIN bills[n] = {cyc}
                /\ TotalCalls = 0) => r.total = Thousandths(270)

\* two of the three lines have a Bill for a cycle, the line between them has
\* none, and one of the two Bills has billed minutes
C18_Witness ==
    \E cyc \in Cycles :
        /\ phone_lines = <<1, 2, 3>>
        /\ cyc \in DOMAIN bills[1]
        /\ cyc \notin DOMAIN bills[2]
        /\ cyc \in DOMAIN bills[3]
        /\ bills[3][cyc].billed_min > 0
        /\ Len(generate_bill(cyc).bills) = 2

\* C19: no step changes a Bill of a line other than the one bound to the
\* line's contract: once the contract is advanced to another cycle, the
\* Bills of the cycles before stay as they were.
C19_PastBillsFrozen ==
    [][\A n \in Numbers :
          \A cyc \in DOMAIN bills[n] :
              cyc # contract[n].bill =>
                  /\ cyc \in DOMAIN bills'[n]
                  /\ bills'[n][cyc] = bills[n][cyc]
                  /\ contract'[n].bill # cyc]_vars

\* a month-to-month line that made a call dated in a cycle it had left: the
\* call is in the history of that cycle and its Bill has no minutes
C19_Witness ==
    \E n \in Numbers :
        \E cyc \in DOMAIN bills[n] :
            /\ IsMTM(n)
            /\ cyc # contract[n].bill
            /\ cyc \in DOMAIN callhistory[n].outgoing_calls
            /\ bills[n][cyc].billed_min = 0

\* C20: the minutes of a non-negative duration d satisfy
\* minutes * 60 >= d > (minutes - 1) * 60, and a longer duration never gets
\* fewer minutes than a shorter one.
C20_CeilBracketsAndMonotone ==
    /\ \A d \in DOMAIN conv :
           conv[d] * 60 >= d /\ d > (conv[d] - 1) * 60
    /\ \A a, b \in DOMAIN conv : a <= b => conv[a] <= conv[b]

\* a whole minute and a duration one second longer were both converted
C20_Witness ==
    /\ {60, 61} \subseteq DOMAIN conv
    /\ conv[60] = 1
    /\ conv[61] = 2

\* C21: a step that advances a TermContract leaves term_minutes at 100 less
\* the minutes of the call the same step records (100 when it records none)
\* and saved_month at the cycle advanced to, whatever term_minutes was.
C21_AdvanceResetsAllotment ==
    [][\A n \in Numbers :
          (IsTerm(n) /\ Advances(n)) =>
              /\ contract'[n].term_minutes =
                     (IF RecordsCall(n) THEN 100 - CallMinutes(n) ELSE 100)
              /\ contract'[n].saved_month = contract'[n].bill
              /\ contract'[n].bill \notin DOMAIN bills[n]]_vars

\* a term line advanced to a new cycle after a cycle in which it overdrew
\* its allotment (101 free minutes on that cycle's Bill)
C21_Witness ==
    \E n \in Numbers :
        /\ IsTerm(n) /\ HasBill(n)
        /\ contract[n].term_minutes = 100
        /\ \E cyc \in DOMAIN bills[n] :
               cyc # contract[n].bill /\ bills[n][cyc].free_min = 101

\* C22: cancelling a TermContract whose last advanced cycle is the cycle of
\* its end date changes no Bill of the line (and nothing of the contract).
C22_CloseAtEndChangesNothing ==
    [][\A n \in Numbers :
          (IsTerm(n) /\ Cancels(n) /\ HasBill(n)
           /\ contract[n].saved_month = contract[n].end) =>
              /\ bills'[n] = bills[n]
              /\ contract'[n] = contract[n]]_vars

\* a term line cancelled in the cycle of its end date, deposit on its Bill
C22_Witness ==
    \E n \in Numbers :
        /\ IsTerm(n) /\ ~Owned(n) /\ HasBill(n)
        /\ contract[n].saved_month = contract[n].end
        /\ cancel_ret.number = n

C24_PrepaidBalanceSettles ==
    /\ [][/\ contract'[1].balance <= contract[1].balance
           /\ (contract[1].balance <= PREPAID_LOW_WATER =>
                   contract'[1].balance = contract[1].balance)
           /\ (contract[1].balance > PREPAID_LOW_WATER =>
                   contract'[1].balance > PREPAID_LOW_WATER - PREPAID_TOPUP)]_vars
    /\ <>[](contract[1].balance <= PREPAID_LOW_WATER)

\* the balance came down from 100 to -25, and a cycle advanced after that
\* charged -25 again
C24_Witness ==
    /\ IsPrepaid(1)
    /\ contract[1].balance = -25
    /\ \E c \in DOMAIN bills[1] : bills[1][c].fixed_cost = Thousandths(-100)
    /\ \E c \in DOMAIN bills[1] : bills[1][c].fixed_cost = Thousandths(0)
    /\ HasBill(1)
    /\ Active(1).fixed_cost = Thousandths(25)
    /\ Cardinality(DOMAIN bills[1]) = MaxMonths

\* C25: in every state with an active Bill, bill_call of any duration leaves
\* the fixed cost and the rate of that Bill, and the contract's balance, as
\* they are.
C25_BillCallFrame ==
    \A n \in Numbers :
        (Owned(n) /\ HasBill(n)) =>
            \A d \in Durations :
                LET after == bill_call(Line(n), d)
                IN  /\ ActiveBill(after).fixed_cost = Active(n).fixed_cost
                    /\ ActiveBill(after).min_rate = Active(n).min_rate
                    /\ after.contract.balance = contract[n].balance
                    /\ after.contract.bill = contract[n].bill

\* a prepaid line whose Bill already carries two calls, 102 minutes
C25_Witness ==
    \E n \in Numbers :
        /\ IsPrepaid(n) /\ Owned(n) /\ HasBill(n)
        /\ Active(n).billed_min = 102
        /\ contract[n].balance < 0

====
